---- MODULE Spec2Model ----
(***************************************************************************)
(* A model of minicap.go: the capture process supervisor (minicapDaemon),  *)
(* the frame stream reader (jpgTcpSucker) and the session coordinator      *)
(* (STFCapturer), together with the device they talk to.                   *)
(*                                                                         *)
(* Goroutines are processes with a program counter; channels are modelled  *)
(* by their buffer (quitC, C) or by a rendezvous between a blocked sender  *)
(* and the receiving select (rotationC, the channels returned by GoFunc).  *)
(* The device agent (run command, stat, push, forward, dial) answers       *)
(* truthfully about the remote file system and kills reliably; whether a   *)
(* command, a push, a dial or a forward succeeds is chosen by the          *)
(* environment.                                                            *)
(***************************************************************************)
EXTENDS Integers, Sequences, FiniteSets, TLC

(* ------------------------------ bounds --------------------------------- *)
\* Start calls a client may issue in one behaviour.
MaxStarts == 2
\* Start calls issued while rotation and quality requests are studied.
SupStarts == 1
\* Start calls issued on the Coordinator.
CoStarts == 1
\* Stop calls issued on the Coordinator.
MaxStops == 1
\* Start calls issued on a Reader studied alone.
RdStarts == 1
\* SetRotation / SetQuality calls issued in one behaviour.
MaxReqs == 2
\* Rotation values are 0, 90, ..., 90 * MaxRot.
MaxRot == 1
\* Longest payload the data socket sends in one frame.
MaxPayload == 2

(* ------------------------- program constants --------------------------- *)
QUALITY_1080P == 1
QUALITY_720P == 2
QUALITY_480P == 3
QUALITY_240P == 4
\* newMinicapDaemon: maxWidth, maxHeight
DefaultMax == 720
\* prepareSafe: retries after the first attempt
ProbeRetries == 3
\* make(chan []byte, 3)
QueueCap == 3
\* keepReadFromTcp: leftRetry := 10
MaxRetry == 10
\* the preamble: u8 u8 u32 u32 u32 u32 u32 u8 u8
PreambleLen == 24
\* binary.Read of a uint32
SizeLen == 4

(* ------------------------------ values --------------------------------- *)
\* Errors are chains of messages, innermost last; nil is the empty chain.
NoErr == <<>>
slowCap == "/data/local/tmp/slow-minicap"
fastCap == "/data/local/tmp/minicap"
fastLib == "/data/local/tmp/minicap.so"
Files == {slowCap, fastCap, fastLib}
Rotations == {90 * k : k \in 0..MaxRot}
Clients == {1, 2}
Callers == {1, 2}

\* errors.Wrap: nil stays nil, anything else is annotated.
Wrap(err, msg) == IF err = NoErr THEN NoErr ELSE <<msg>> \o err

\* strings.Contains over lines given as sequences of characters.
Contains(line, sub) ==
  \E i \in 0..(Len(line) - Len(sub)) :
    \A j \in 1..Len(sub) : line[i + j] = sub[j]

PidMarker == <<"P", "I", "D", ":">>
\* First lines the capture process may print on its control stream.
FirstLines ==
  { <<"P", "I", "D", ":", " ", "9">>,
    <<"I", "N", "F", "O", ":", " ", "P", "I", "D", ":">>,
    <<"I", "N", "F", "O">>,
    <<"P", "I", "D">>,
    <<>> }

\* The tiers a caller may ask for; 0 is not one of the presets.
Qualities == {QUALITY_1080P, QUALITY_720P, QUALITY_480P, QUALITY_240P, 0}

\* The bounding box of a quality tier; 0 for an unsupported tier.
QualityBox(quality) ==
  CASE quality = QUALITY_1080P -> 1080
    [] quality = QUALITY_720P -> 720
    [] quality = QUALITY_480P -> 480
    [] quality = QUALITY_240P -> 240
    [] OTHER -> 0

NoInfo == [Width |-> 0, Height |-> 0, Rotation |-> 0]
\* What the device-info probe may report.
Infos == { [Width |-> 720, Height |-> 1280, Rotation |-> r] : r \in Rotations }

VARIABLES
  remote,   \* the files that exist on the device
  proc,     \* the capture process on the device
  m,        \* minicapDaemon's fields, with its errorMixin and safeMixin
  loop,     \* the goroutine running runScreenCaptureWithRotate
  cap,      \* the goroutine running runScreenCapture (GoFunc)
  req,      \* the callers of SetRotation / SetQuality
  call,     \* the clients calling Start / Stop / Wait
  s,        \* jpgTcpSucker's fields, with its errorMixin and safeMixin
  keep,     \* the goroutine running keepReadFromTcp
  rd,       \* the goroutine running readFromTcp (GoFunc)
  wire,     \* the data connection: bytes sent and not yet read
  hist      \* history: counters and logs the properties read

supVars == <<remote, proc, m, loop, cap, req>>
rdVars == <<s, keep, rd, wire>>
vars == <<remote, proc, m, loop, cap, req, call, s, keep, rd, wire, hist>>

(* --------------------- errorMixin and safeMixin ------------------------ *)
\* resetError: a new run has no terminal outcome yet.
resetError(x) == [x EXCEPT !.done = FALSE, !.err = NoErr]
\* doneError: record the terminal outcome and release the waiters.
doneError(x, e) == [x EXCEPT !.done = TRUE, !.err = e]
\* Wait returns the stored error once the run is done.
WaitReady(x) == x.done
\* safeDo: refuse when a Start or Stop of the component is in flight.
safeBusy(x) == x.busy
safeEnter(x) == [x EXCEPT !.busy = TRUE]
safeLeave(x) == [x EXCEPT !.busy = FALSE]
ErrBusy == <<"already running">>

(* ------------------------------ clients -------------------------------- *)
Idle == [top |-> "none", sub |-> "none", pc |-> "idle", n |-> 0,
         err |-> NoErr, err1 |-> NoErr, err2 |-> NoErr, did |-> <<>>]
\* The sub-call of client c returns e.
Ret(c, e) == [call EXCEPT ![c].pc = "ret", ![c].err = e]
At(c, sub, pc) == call[c].sub = sub /\ call[c].pc = pc

(* ------------------------------ device --------------------------------- *)
NoParam == [width |-> 0, height |-> 0, maxWidth |-> 0, maxHeight |-> 0,
            rotation |-> 0]
\* killProc for both names: every running capture process dies.
killMinicap(p) == IF p.st = "running" THEN [p EXCEPT !.st = "dead"] ELSE p

\* Device.Stat succeeds exactly on the files that exist.
isRemoteExists(rem, path) == path \in rem
AdbFileExists(rem, path) == path \in rem

(* --------------------------- provisioning ------------------------------ *)
\* What the device and the artifact host answer during one prepare().
PrepareOutcomes ==
  [ props : {"ok", "err", "noabi", "nosdk"},
    push : [{fastLib, fastCap} -> BOOLEAN],
    run : {"ok", "err"},
    json : {"ok", "bad"},
    mi : Infos ]

\* One turn of pushFiles' loop for dst: skip an existing file, else push it.
MutPushOne(st, dst, perms, ok) ==
  IF st.err # NoErr THEN st
  ELSE IF ok
    THEN [st EXCEPT !.remote = @ \cup {dst},
                    !.pushed = @ \cup {[file |-> dst, perms |-> perms,
                                        slow |-> slowCap \in st.remote,
                                        there |-> dst \in st.remote]}]
    ELSE [st EXCEPT !.err = <<"push failed">>]

pushOne(st, dst, perms, ok) ==
  IF st.err # NoErr \/ AdbFileExists(st.remote, dst) THEN st
  ELSE IF ok
    THEN [st EXCEPT !.remote = @ \cup {dst},
                    !.pushed = @ \cup {[file |-> dst, perms |-> perms,
                                        slow |-> slowCap \in st.remote,
                                        there |-> dst \in st.remote]}]
    ELSE [st EXCEPT !.err = <<"push failed">>]

\* pushFiles: properties first, then minicap.so (0644) and minicap (0755).
pushFiles(rem, o) ==
  LET st0 == [remote |-> rem, pushed |-> {}, err |-> NoErr] IN
  CASE o.props = "err" -> [st0 EXCEPT !.err = <<"properties">>]
    [] o.props = "noabi" -> [st0 EXCEPT !.err = <<"No ro.product.cpu.abi propery">>]
    [] o.props = "nosdk" -> [st0 EXCEPT !.err = <<"No ro.build.version.sdk propery">>]
    [] OTHER ->
         pushOne(pushOne(st0, fastLib, 644, o.push[fastLib]),
                 fastCap, 755, o.push[fastCap])

MutPrepare(rem, o) ==
  LET pf == pushFiles(rem, o)
      base == [remote |-> pf.remote, pushed |-> pf.pushed,
               binaryPath |-> fastCap, err |-> pf.err, mi |-> NoInfo]
  IN IF base.err # NoErr THEN base
     ELSE IF o.run = "err" THEN [base EXCEPT !.err = Wrap(<<"run">>, "run minicap -i")]
     ELSE IF o.json = "bad" THEN [base EXCEPT !.err = <<"json">>]
     ELSE [base EXCEPT !.mi = o.mi]

\* prepare: choose the variant, push the fast one's files, probe with -i.
prepare(rem, o) ==
  LET slow == isRemoteExists(rem, slowCap)
      pf == IF slow THEN [remote |-> rem, pushed |-> {}, err |-> NoErr]
            ELSE pushFiles(rem, o)
      base == [remote |-> pf.remote, pushed |-> pf.pushed,
               binaryPath |-> IF slow THEN slowCap ELSE fastCap,
               err |-> pf.err, mi |-> NoInfo]
  IN IF base.err # NoErr THEN base
     ELSE IF o.run = "err" THEN [base EXCEPT !.err = Wrap(<<"run">>, "run minicap -i")]
     ELSE IF o.json = "bad" THEN [base EXCEPT !.err = <<"json">>]
     ELSE [base EXCEPT !.mi = o.mi]

(* ------------------------- minicapDaemon.Start ------------------------- *)
\* Start's body run without the guard of safeDo.
MutM_Start(c) ==
  /\ At(c, "m.Start", "enter")
  /\ m' = [safeEnter(resetError(m)) EXCEPT !.quitC = "empty"]
  /\ proc' = killMinicap(proc)
  /\ call' = [call EXCEPT ![c].pc = "prepare", ![c].n = 0]
  /\ UNCHANGED <<remote, loop, cap, req, hist, rdVars>>

\* safeDo, resetError, a fresh quitC, killMinicap.
M_Start(c) ==
  /\ At(c, "m.Start", "enter")
  /\ IF safeBusy(m)
       THEN /\ call' = Ret(c, ErrBusy)
            /\ UNCHANGED <<m, proc>>
       ELSE /\ m' = [safeEnter(resetError(m)) EXCEPT !.quitC = "empty"]
            /\ proc' = killMinicap(proc)
            /\ call' = [call EXCEPT ![c].pc = "prepare", ![c].n = 0]
  /\ UNCHANGED <<remote, loop, cap, req, hist, rdVars>>

\* prepareSafe giving up one retry early.
MutM_prepareSafe(c) ==
  /\ At(c, "m.Start", "prepare")
  /\ \E o \in PrepareOutcomes :
       LET r == prepare(remote, o) IN
       /\ remote' = r.remote
       /\ hist' = [hist EXCEPT !.pushLog = @ \cup r.pushed]
       /\ IF r.err = NoErr
            THEN /\ m' = [safeLeave(m) EXCEPT !.binaryPath = r.binaryPath,
                                              !.width = r.mi.Width,
                                              !.height = r.mi.Height,
                                              !.rotation = r.mi.Rotation]
                 /\ loop' = [pc |-> "start", needRestart |-> FALSE]
                 /\ call' = Ret(c, NoErr)
                 /\ proc' = proc
            ELSE IF call[c].n >= ProbeRetries - 1
            THEN /\ m' = [safeLeave(m) EXCEPT !.binaryPath = r.binaryPath]
                 /\ call' = Ret(c, Wrap(r.err, "prepare minicap"))
                 /\ UNCHANGED <<loop, proc>>
            ELSE /\ m' = [m EXCEPT !.binaryPath = r.binaryPath]
                 /\ proc' = killMinicap(proc)
                 /\ call' = [call EXCEPT ![c].n = @ + 1]
                 /\ loop' = loop
  /\ UNCHANGED <<cap, req, rdVars>>

\* One turn of prepareSafe's loop, and on success the rest of Start.
M_prepareSafe(c) ==
  /\ At(c, "m.Start", "prepare")
  /\ \E o \in PrepareOutcomes :
       LET r == prepare(remote, o) IN
       /\ remote' = r.remote
       /\ hist' = [hist EXCEPT !.pushLog = @ \cup r.pushed]
       /\ IF r.err = NoErr
            THEN /\ m' = [safeLeave(m) EXCEPT !.binaryPath = r.binaryPath,
                                              !.width = r.mi.Width,
                                              !.height = r.mi.Height,
                                              !.rotation = r.mi.Rotation]
                 /\ loop' = [pc |-> "start", needRestart |-> FALSE]
                 /\ call' = Ret(c, NoErr)
                 /\ proc' = proc
            ELSE IF call[c].n >= ProbeRetries
            THEN /\ m' = [safeLeave(m) EXCEPT !.binaryPath = r.binaryPath]
                 /\ call' = Ret(c, Wrap(r.err, "prepare minicap"))
                 /\ UNCHANGED <<loop, proc>>
            ELSE /\ m' = [m EXCEPT !.binaryPath = r.binaryPath]
                 /\ proc' = killMinicap(proc)
                 /\ call' = [call EXCEPT ![c].n = @ + 1]
                 /\ loop' = loop
  /\ UNCHANGED <<cap, req, rdVars>>

(* -------------------------- minicapDaemon.Stop ------------------------- *)
M_Stop(c) ==
  /\ At(c, "m.Stop", "enter")
  /\ IF safeBusy(m)
       THEN /\ call' = Ret(c, ErrBusy)
            /\ m' = m
       ELSE /\ m' = safeEnter(m)
            /\ call' = [call EXCEPT ![c].pc = "send"]
  /\ UNCHANGED <<remote, proc, loop, cap, req, hist, rdVars>>

\* m.quitC <- true: the buffer holds one value.
M_Stop_send(c) ==
  /\ At(c, "m.Stop", "send")
  /\ m.quitC = "empty"
  /\ m' = [m EXCEPT !.quitC = "full"]
  /\ call' = [call EXCEPT ![c].pc = "wait"]
  /\ UNCHANGED <<remote, proc, loop, cap, req, hist, rdVars>>

\* return m.Wait()
M_Stop_wait(c) ==
  /\ At(c, "m.Stop", "wait")
  /\ WaitReady(m)
  /\ m' = safeLeave(m)
  /\ call' = Ret(c, m.err)
  /\ UNCHANGED <<remote, proc, loop, cap, req, hist, rdVars>>

NoReq == [st |-> "idle", kind |-> "none", val |-> 0, box |-> 0]

(* ------------------ runScreenCaptureWithRotate (loop) ------------------ *)
\* GoFunc(m.runScreenCapture): a goroutine that will send its result.
GoCapture == [pc |-> "format", param |-> NoParam, err |-> NoErr]
NoCapture == [pc |-> "none", param |-> NoParam, err |-> NoErr]

\* killMinicap, then the first GoFunc(m.runScreenCapture).
Loop_begin ==
  /\ loop.pc = "start"
  /\ cap.pc = "none"
  /\ proc' = killMinicap(proc)
  /\ cap' = GoCapture
  /\ loop' = [pc |-> "select", needRestart |-> FALSE]
  /\ UNCHANGED <<remote, m, req, call, hist, rdVars>>

\* case err = <-errC while a restart was asked for: clear the flag, relaunch.
MutLoop_errC ==
  /\ loop.pc = "select"
  /\ cap.pc = "result"
  /\ IF ~loop.needRestart /\ cap.err = <<"minicap quit">>
       THEN /\ loop' = [loop EXCEPT !.pc = "done"]
            /\ m' = doneError(m, Wrap(cap.err, "minicap"))
            /\ cap' = NoCapture
       ELSE /\ loop' = [loop EXCEPT !.needRestart = FALSE]
            /\ cap' = GoCapture
            /\ m' = m
  /\ UNCHANGED <<remote, proc, req, call, hist, rdVars>>

\* case err = <-errC
Loop_errC ==
  /\ loop.pc = "select"
  /\ cap.pc = "result"
  /\ IF ~loop.needRestart
       THEN /\ loop' = [loop EXCEPT !.pc = "done"]
            /\ m' = doneError(m, Wrap(cap.err, "minicap"))
            /\ cap' = NoCapture
       ELSE /\ loop' = [loop EXCEPT !.needRestart = FALSE]
            /\ cap' = GoCapture
            /\ m' = m
  /\ UNCHANGED <<remote, proc, req, call, hist, rdVars>>

\* case r := <-m.rotationC: a blocked sender k hands over its value.
\* (History: the request is logged, "live" when a process was running.)
Loop_rotationC ==
  /\ loop.pc = "select"
  /\ \E k \in Callers :
       /\ req[k].st = "send"
       /\ loop' = [loop EXCEPT !.needRestart = TRUE]
       /\ m' = [m EXCEPT !.rotation = req[k].val]
       /\ proc' = killMinicap(proc)
       /\ req' = [req EXCEPT ![k] = NoReq]
       /\ hist' = [hist EXCEPT !.pend =
                     Append(@, [req[k] EXCEPT !.st = IF proc.st = "running"
                                                      THEN "live" ELSE "early"])]
  /\ UNCHANGED <<remote, cap, call, rdVars>>

\* case <-m.quitC: kill and return; the deferred doneError sees err = nil.
Loop_quitC ==
  /\ loop.pc = "select"
  /\ m.quitC = "full"
  /\ proc' = killMinicap(proc)
  /\ m' = [doneError(m, Wrap(NoErr, "minicap")) EXCEPT !.quitC = "empty"]
  /\ loop' = [loop EXCEPT !.pc = "done"]
  /\ UNCHANGED <<remote, cap, req, call, hist, rdVars>>

(* --------------------------- runScreenCapture -------------------------- *)
\* The parameter string is formatted from the fields as they are now.
MutFormatParam(x) ==
  [width |-> x.width, height |-> x.height, maxWidth |-> x.maxWidth,
   maxHeight |-> x.maxHeight, rotation |-> 0]

FormatParam(x) ==
  [width |-> x.width, height |-> x.height, maxWidth |-> x.maxWidth,
   maxHeight |-> x.maxHeight, rotation |-> x.rotation]

Cap_format ==
  /\ cap.pc = "format"
  /\ cap' = [cap EXCEPT !.pc = "open", !.param = FormatParam(m)]
  /\ hist' = [hist EXCEPT !.seen = Len(hist.pend)]
  /\ UNCHANGED <<remote, proc, m, loop, req, call, rdVars>>

\* OpenCommand fails, or the process starts with the formatted parameters.
\* (History: the requests received since the last launch are served by it;
\* the launch is fresh when its parameters were formatted after all of them.)
Cap_open(mayFail) ==
  /\ cap.pc = "open"
  /\ \/ /\ mayFail
        /\ cap' = [cap EXCEPT !.pc = "result", !.err = <<"open command">>]
        /\ UNCHANGED <<proc, hist>>
     \/ /\ proc' = [st |-> "running", param |-> cap.param]
        /\ cap' = [cap EXCEPT !.pc = "first"]
        /\ hist' = [hist EXCEPT !.pend = <<>>, !.served = hist.pend,
                                !.seen = 0,
                                !.fresh = (hist.seen = Len(hist.pend))]
  /\ UNCHANGED <<remote, m, loop, req, call, rdVars>>

\* The first ReadLine and the PID check. A return runs the deferred c.Close(),
\* which ends the command on the device.
Cap_firstLine(lines) ==
  /\ cap.pc = "first"
  /\ IF proc.st # "running"
       THEN /\ cap' = [cap EXCEPT !.pc = "result", !.err = <<"EOF">>]
            /\ proc' = proc
       ELSE \E line \in lines :
              IF ~Contains(line, PidMarker)
                THEN /\ cap' = [cap EXCEPT !.pc = "result",
                                           !.err = Wrap(<<"expect PID">>, "run minicap")]
                     /\ proc' = [proc EXCEPT !.st = "dead"]
                ELSE /\ cap' = [cap EXCEPT !.pc = "lines"]
                     /\ proc' = proc
  /\ UNCHANGED <<remote, m, loop, req, call, hist, rdVars>>

\* The later lines are read until the stream ends.
Cap_lines ==
  /\ cap.pc = "lines"
  /\ proc.st # "running"
  /\ cap' = [cap EXCEPT !.pc = "result", !.err = <<"minicap quit">>]
  /\ UNCHANGED <<remote, proc, m, loop, req, call, hist, rdVars>>

\* No loop is left to receive the result: the goroutine stays blocked.
Cap_orphan ==
  /\ cap.pc = "result"
  /\ loop.pc \in {"off", "done"}
  /\ cap' = NoCapture
  /\ UNCHANGED <<remote, proc, m, loop, req, call, hist, rdVars>>

\* The capture process ends by itself.
Proc_exit ==
  /\ proc.st = "running"
  /\ proc' = [proc EXCEPT !.st = "dead"]
  /\ UNCHANGED <<remote, m, loop, cap, req, call, hist, rdVars>>

(* ---------------------- SetQuality and SetRotation --------------------- *)
\* The switch of SetQuality: what the fields are after it.
SetQualityFields(x, quality) ==
  IF QualityBox(quality) = 0 THEN x
  ELSE [x EXCEPT !.maxHeight = QualityBox(quality)]

SetQuality(k, quality) ==
  /\ req[k].st = "idle"
  /\ hist.nreq < MaxReqs
  /\ m' = SetQualityFields(m, quality)
  /\ req' = IF QualityBox(quality) = 0 THEN req
            ELSE [req EXCEPT ![k] = [st |-> "send", kind |-> "quality",
                                     val |-> m.rotation,
                                     box |-> QualityBox(quality)]]
  /\ hist' = [hist EXCEPT !.nreq = @ + 1]
  /\ UNCHANGED <<remote, proc, loop, cap, call, rdVars>>

SetRotation(k, r) ==
  /\ req[k].st = "idle"
  /\ hist.nreq < MaxReqs
  /\ req' = [req EXCEPT ![k] = [st |-> "send", kind |-> "rotation",
                                val |-> r, box |-> 0]]
  /\ hist' = [hist EXCEPT !.nreq = @ + 1]
  /\ UNCHANGED <<remote, proc, m, loop, cap, call, rdVars>>

\* A timeout that also releases the sender of a quality event.
MutSetRotation_timeout(k) ==
  /\ req[k].st = "send"
  /\ req' = [req EXCEPT ![k] = NoReq]
  /\ UNCHANGED <<remote, proc, m, loop, cap, call, hist, rdVars>>

\* case <-time.After(100 * time.Millisecond)
SetRotation_timeout(k) ==
  /\ req[k].st = "send"
  /\ req[k].kind = "rotation"
  /\ req' = [req EXCEPT ![k] = NoReq]
  /\ UNCHANGED <<remote, proc, m, loop, cap, call, hist, rdVars>>

(* ======================== jpgTcpSucker (Reader) ======================== *)
\* Bytes on the data socket.
SOI1 == 255
SOI2 == 216
Alphabet == {SOI1, SOI2}

Min(a, b) == IF a < b THEN a ELSE b
Take(q, n) == SubSeq(q, 1, Min(n, Len(q)))
Drop(q, n) == SubSeq(q, Min(n, Len(q)) + 1, Len(q))

\* binary.LittleEndian on a uint32.
PutUint32(n) ==
  << n % 256, (n \div 256) % 256, (n \div 65536) % 256,
     (n \div 16777216) % 256 >>
\* The decoded value saturates at Huge: no connection of the model carries that
\* many bytes, so every such size reads the same way (to the end of the stream).
Huge == 65536
\* A big-endian decoding of the length.
MutUint32(b) == IF b[1] = 0 /\ b[2] = 0 THEN b[4] + 256 * b[3] ELSE Huge
Uint32(b) == IF b[3] = 0 /\ b[4] = 0 THEN b[1] + 256 * b[2] ELSE Huge

\* version, unused, pid, rw, rh, vw, vh, orientation, quirkFlag
Preamble ==
  <<1, 0>> \o PutUint32(9355) \o PutUint32(720) \o PutUint32(1280)
           \o PutUint32(720) \o PutUint32(1280) \o <<0, 2>>

Payloads == UNION { [1..n -> Alphabet] : n \in 0..MaxPayload }
\* What the socket sends in one piece: the preamble, or a length and a payload
\* that is complete or one byte short.
Messages ==
  {Preamble} \cup { PutUint32(Len(p) + d) \o p : p \in Payloads, d \in {0, 1} }

\* string(buf.Bytes()[:2]): the slice reaches into the buffer's spare
\* capacity, which holds zeroes, when the payload is shorter than two bytes.
FirstTwo(buf) ==
  << IF Len(buf) >= 1 THEN buf[1] ELSE 0,
     IF Len(buf) >= 2 THEN buf[2] ELSE 0 >>
MutHasMarker(buf) == Len(buf) < 2 \/ FirstTwo(buf) = <<SOI1, SOI2>>
HasMarker(buf) == FirstTwo(buf) = <<SOI1, SOI2>>

ErrJpeg == <<"jpeg format error, not starts with 0xff,0xd8">>
ErrRetry == <<"jpgTcpSucker reach max retry(10)">>

\* select { case s.C <- frame: default: }
MutTrySend(q, frame) == Append(q, frame)
TrySend(q, frame) == IF Len(q) < QueueCap THEN Append(q, frame) ELSE q

GoRead == [pc |-> "dial", size |-> 0, err |-> NoErr]
NoReader == [pc |-> "none", size |-> 0, err |-> NoErr]
NoWire == [st |-> "none", bytes |-> <<>>, eof |-> FALSE]

(* --------------------------- Start and Stop ---------------------------- *)
\* safeDo, resetError, fresh C and quitC, prepareForward, go keepReadFromTcp.
S_Start(c) ==
  /\ At(c, "s.Start", "enter")
  /\ IF safeBusy(s)
       THEN /\ call' = Ret(c, ErrBusy)
            /\ UNCHANGED <<s, keep, hist>>
       ELSE \E ok \in BOOLEAN :
              LET s1 == [resetError(s) EXCEPT !.C = <<>>, !.quitC = "empty"] IN
              IF ok
                THEN /\ s' = [s1 EXCEPT !.port = 1]
                     /\ keep' = [pc |-> "start", leftRetry |-> 0]
                     /\ call' = Ret(c, NoErr)
                     /\ hist' = [hist EXCEPT !.got = <<>>, !.dropped = FALSE,
                                              !.rdStarts = @ + 1]
                ELSE /\ s' = [s1 EXCEPT !.port = 0]
                     /\ call' = Ret(c, <<"forward failed">>)
                     /\ hist' = [hist EXCEPT !.got = <<>>, !.dropped = FALSE,
                                              !.rdStarts = @ + 1]
                     /\ keep' = keep
  /\ UNCHANGED <<supVars, rd, wire>>

S_Stop(c) ==
  /\ At(c, "s.Stop", "enter")
  /\ IF safeBusy(s)
       THEN /\ call' = Ret(c, ErrBusy)
            /\ s' = s
       ELSE /\ s' = safeEnter(s)
            /\ call' = [call EXCEPT ![c].pc = "send"]
  /\ UNCHANGED <<supVars, keep, rd, wire, hist>>

\* s.quitC <- true
S_Stop_send(c) ==
  /\ At(c, "s.Stop", "send")
  /\ s.quitC = "empty"
  /\ s' = [s EXCEPT !.quitC = "full"]
  /\ call' = [call EXCEPT ![c].pc = "close"]
  /\ UNCHANGED <<supVars, keep, rd, wire, hist>>

\* if s.conn != nil { s.conn.Close() }: s.conn is the connection of the last
\* dial whose assignment has happened; closing an older one changes nothing.
S_Stop_close(c) ==
  /\ At(c, "s.Stop", "close")
  /\ wire' = IF s.conn = "cur" /\ wire.st = "open"
               THEN [wire EXCEPT !.st = "closed"] ELSE wire
  /\ call' = [call EXCEPT ![c].pc = "wait"]
  /\ UNCHANGED <<supVars, s, keep, rd, hist>>

\* return s.Wait()
S_Stop_wait(c) ==
  /\ At(c, "s.Stop", "wait")
  /\ WaitReady(s)
  /\ s' = safeLeave(s)
  /\ call' = Ret(c, s.err)
  /\ UNCHANGED <<supVars, keep, rd, wire, hist>>

(* -------------------------- keepReadFromTcp ---------------------------- *)
\* leftRetry := 10 and the first GoFunc(s.readFromTcp).
Keep_begin ==
  /\ keep.pc = "start"
  /\ rd.pc = "none"
  /\ keep' = [pc |-> "wait", leftRetry |-> MaxRetry]
  /\ rd' = GoRead
  /\ hist' = [hist EXCEPT !.attempts = 1]
  /\ UNCHANGED <<supVars, call, s, wire>>

\* case err = <-GoFunc(s.readFromTcp)
Keep_result ==
  /\ keep.pc = "wait"
  /\ rd.pc = "result"
  /\ keep' = [keep EXCEPT !.pc = "sleep"]
  /\ rd' = NoReader
  /\ UNCHANGED <<supVars, call, s, wire, hist>>

\* The stop signal answered with the error of the last connection.
MutKeep_quitC ==
  /\ keep.pc \in {"wait", "sleep"}
  /\ s.quitC = "full"
  /\ keep' = [keep EXCEPT !.pc = "done"]
  /\ s' = [doneError(s, Wrap(<<"read">>, "readFromTcp")) EXCEPT !.quitC = "empty"]
  /\ UNCHANGED <<supVars, call, rd, wire, hist>>

\* case <-s.quitC (either select): return nil.
Keep_quitC ==
  /\ keep.pc \in {"wait", "sleep"}
  /\ s.quitC = "full"
  /\ keep' = [keep EXCEPT !.pc = "done"]
  /\ s' = [doneError(s, Wrap(NoErr, "readFromTcp")) EXCEPT !.quitC = "empty"]
  /\ UNCHANGED <<supVars, call, rd, wire, hist>>

\* The back-off ends: give up when no retry is left, else retry.
MutKeep_timer ==
  /\ keep.pc = "sleep"
  /\ IF keep.leftRetry <= 1
       THEN /\ keep' = [keep EXCEPT !.pc = "done"]
            /\ s' = doneError(s, Wrap(ErrRetry, "readFromTcp"))
            /\ UNCHANGED <<rd, hist>>
       ELSE /\ keep' = [keep EXCEPT !.pc = "wait", !.leftRetry = @ - 1]
            /\ rd' = GoRead
            /\ hist' = [hist EXCEPT !.attempts = @ + 1]
            /\ s' = s
  /\ UNCHANGED <<supVars, call, wire>>

Keep_timer ==
  /\ keep.pc = "sleep"
  /\ IF keep.leftRetry <= 0
       THEN /\ keep' = [keep EXCEPT !.pc = "done"]
            /\ s' = doneError(s, Wrap(ErrRetry, "readFromTcp"))
            /\ UNCHANGED <<rd, hist>>
       ELSE /\ keep' = [keep EXCEPT !.pc = "wait", !.leftRetry = @ - 1]
            /\ rd' = GoRead
            /\ hist' = [hist EXCEPT !.attempts = @ + 1]
            /\ s' = s
  /\ UNCHANGED <<supVars, call, wire>>

(* ----------------------------- readFromTcp ----------------------------- *)
\* A return runs the deferred conn.Close().
Closed(w) == IF w.st = "open" THEN [w EXCEPT !.st = "closed"] ELSE w
\* A read of n bytes can complete: the bytes are there, or the stream ended.
Readable(n) == wire.st = "closed" \/ wire.eof \/ Len(wire.bytes) >= n

\* net.Dial
Read_dial(mayFail) ==
  /\ rd.pc = "dial"
  /\ \/ /\ mayFail
        /\ rd' = [rd EXCEPT !.pc = "result", !.err = <<"dial">>]
        /\ UNCHANGED <<wire, s>>
     \/ /\ wire' = [st |-> "open", bytes |-> <<>>, eof |-> FALSE]
        /\ s' = [s EXCEPT !.conn = IF @ = "nil" THEN "nil" ELSE "old"]
        /\ rd' = [rd EXCEPT !.pc = "assign"]
  /\ UNCHANGED <<supVars, call, keep, hist>>

\* s.conn = conn
Read_assign ==
  /\ rd.pc = "assign"
  /\ s' = [s EXCEPT !.conn = "cur"]
  /\ rd' = [rd EXCEPT !.pc = "preamble"]
  /\ UNCHANGED <<supVars, call, keep, wire, hist>>

\* binRd.ReadInto(&version, ..., &quirkFlag)
Read_preamble ==
  /\ rd.pc = "preamble"
  /\ Readable(PreambleLen)
  /\ IF wire.st = "open" /\ Len(wire.bytes) >= PreambleLen
       THEN /\ wire' = [wire EXCEPT !.bytes = Drop(@, PreambleLen)]
            /\ rd' = [rd EXCEPT !.pc = "size"]
       ELSE /\ wire' = Closed(wire)
            /\ rd' = [rd EXCEPT !.pc = "result", !.err = <<"read">>]
  /\ UNCHANGED <<supVars, call, s, keep, hist>>

\* binRd.ReadInto(&size)
Read_size ==
  /\ rd.pc = "size"
  /\ Readable(SizeLen)
  /\ IF wire.st = "open" /\ Len(wire.bytes) >= SizeLen
       THEN /\ wire' = [wire EXCEPT !.bytes = Drop(@, SizeLen)]
            /\ rd' = [rd EXCEPT !.pc = "payload",
                                !.size = Uint32(Take(wire.bytes, SizeLen))]
       ELSE /\ wire' = Closed(wire)
            /\ rd' = [rd EXCEPT !.pc = "result", !.err = <<"read">>, !.size = 0]
  /\ UNCHANGED <<supVars, call, s, keep, hist>>

\* io.Copy(buf, lr) ends at size bytes or at the end of the stream, without an
\* error in both cases; then the marker check and the non-blocking send.
\* (History: whether a frame found the queue full.)
Read_payload ==
  /\ rd.pc = "payload"
  /\ Readable(rd.size)
  /\ LET buf == Take(wire.bytes, rd.size) IN
     IF wire.st # "open"
       THEN /\ rd' = [rd EXCEPT !.pc = "result", !.err = <<"read">>, !.size = 0]
            /\ UNCHANGED <<wire, s, hist>>
       ELSE IF ~HasMarker(buf)
       THEN /\ rd' = [rd EXCEPT !.pc = "result", !.err = ErrJpeg, !.size = 0]
            /\ wire' = Closed([wire EXCEPT !.bytes = Drop(@, rd.size)])
            /\ UNCHANGED <<s, hist>>
       ELSE /\ rd' = [rd EXCEPT !.pc = "size", !.size = 0]
            /\ wire' = [wire EXCEPT !.bytes = Drop(@, rd.size)]
            /\ s' = [s EXCEPT !.C = TrySend(@, buf)]
            /\ hist' = [hist EXCEPT !.dropped = @ \/ Len(s.C) >= QueueCap]
  /\ UNCHANGED <<supVars, call, keep>>

\* keepReadFromTcp has returned: nobody receives the result.
Read_orphan ==
  /\ rd.pc = "result"
  /\ keep.pc \in {"off", "done"}
  /\ rd' = NoReader
  /\ UNCHANGED <<supVars, call, s, keep, wire, hist>>

(* --------------------------- the data socket --------------------------- *)
\* The remote end sends msg once what it sent before has been read.
Sock_send(msg) ==
  /\ wire.st = "open"
  /\ ~wire.eof
  /\ wire.bytes = <<>>
  /\ wire' = [wire EXCEPT !.bytes = @ \o msg]
  /\ UNCHANGED <<supVars, call, s, keep, rd, hist>>

\* The remote end closes the stream.
Sock_eof ==
  /\ wire.st = "open"
  /\ ~wire.eof
  /\ wire' = [wire EXCEPT !.eof = TRUE]
  /\ UNCHANGED <<supVars, call, s, keep, rd, hist>>

\* The consumer takes a frame from s.C.
Consume ==
  /\ s.C # <<>>
  /\ s' = [s EXCEPT !.C = Tail(@)]
  /\ UNCHANGED <<supVars, call, keep, rd, wire, hist>>

\* The consumer takes a frame from s.C and keeps it (history).
Consume_log ==
  /\ s.C # <<>>
  /\ s' = [s EXCEPT !.C = Tail(@)]
  /\ hist' = [hist EXCEPT !.got = Append(@, Head(s.C))]
  /\ UNCHANGED <<supVars, call, keep, rd, wire>>

\* Two JPEG-marked frames, told apart by their third byte.
Frame1 == <<SOI1, SOI2, 1>>
Frame2 == <<SOI1, SOI2, 2>>
\* The pieces a well-behaved capture socket sends, in order.
Script ==
  << Preamble, PutUint32(Len(Frame1)) \o Frame1,
     PutUint32(Len(Frame2)) \o Frame2 >>

\* The remote end sends the next piece of the script; the script is played
\* once, and after it the remote end stays silent.
Sock_script ==
  /\ wire.st = "open"
  /\ ~wire.eof
  /\ hist.sent < Len(Script)
  /\ wire' = [wire EXCEPT !.bytes = @ \o Script[hist.sent + 1]]
  /\ hist' = [hist EXCEPT !.sent = @ + 1]
  /\ UNCHANGED <<supVars, call, s, keep, rd>>

(* ===================== STFCapturer (Coordinator) ======================= *)
NoSpec == <<>>
SpecTcp == <<"tcp", "2016">>
SpecAbstract == <<"localabstract", "minicap">>

\* wrapMultiError: nil when every error is nil, else the errors together.
wrapMultiError(e1, e2) ==
  IF e1 = NoErr /\ e2 = NoErr THEN NoErr ELSE <<"multi error">> \o e1 \o e2

\* The transport that goes with the binary the Supervisor selected.
MutForwardSpecFor(path) == SpecAbstract
ForwardSpecFor(path) == IF path = slowCap THEN SpecTcp ELSE SpecAbstract

\* Start: s.minicapDaemon.Start() has returned.
MutC_Start_afterM(c) ==
  /\ call[c].top = "c.Start"
  /\ At(c, "m.Start", "ret")
  /\ s' = [s EXCEPT !.forwardSpec = ForwardSpecFor(m.binaryPath)]
  /\ call' = [call EXCEPT ![c].sub = "s.Start", ![c].pc = "enter",
                          ![c].err = NoErr,
                          ![c].did = Append(@, "s.Start")]
  /\ hist' = [hist EXCEPT !.supOk = @ + (IF call[c].err = NoErr THEN 1 ELSE 0)]
  /\ UNCHANGED <<supVars, keep, rd, wire>>

C_Start_afterM(c) ==
  /\ call[c].top = "c.Start"
  /\ At(c, "m.Start", "ret")
  /\ IF call[c].err # NoErr
       THEN /\ call' = [call EXCEPT ![c].sub = "c.Start"]
            /\ UNCHANGED <<s, hist>>
       ELSE /\ s' = [s EXCEPT !.forwardSpec = ForwardSpecFor(m.binaryPath)]
            /\ call' = [call EXCEPT ![c].sub = "s.Start", ![c].pc = "enter",
                                    ![c].did = Append(@, "s.Start")]
            /\ hist' = [hist EXCEPT !.supOk = @ + 1]
  /\ UNCHANGED <<supVars, keep, rd, wire>>

\* A Start that undoes the Supervisor's start when the Reader's start fails.
MutC_Start_afterS(c) ==
  /\ call[c].top = "c.Start"
  /\ At(c, "s.Start", "ret")
  /\ call' = [call EXCEPT ![c].sub = "c.Start"]
  /\ IF call[c].err # NoErr
       THEN /\ m' = [m EXCEPT !.quitC = "full"]
            /\ proc' = killMinicap(proc)
       ELSE UNCHANGED <<m, proc>>
  /\ UNCHANGED <<remote, loop, cap, req, rdVars, hist>>

\* Start: return s.jpgTcpSucker.Start()
C_Start_afterS(c) ==
  /\ call[c].top = "c.Start"
  /\ At(c, "s.Start", "ret")
  /\ call' = [call EXCEPT ![c].sub = "c.Start"]
  /\ UNCHANGED <<supVars, rdVars, hist>>

\* Stop: s.minicapDaemon.Stop() has returned; s.jpgTcpSucker.Stop() is next,
\* whatever the first returned.
MutC_Stop_afterM(c) ==
  /\ call[c].top = "c.Stop"
  /\ At(c, "m.Stop", "ret")
  /\ IF call[c].err # NoErr
       THEN call' = [call EXCEPT ![c].sub = "c.Stop", ![c].err1 = call[c].err]
       ELSE call' = [call EXCEPT ![c].sub = "s.Stop", ![c].pc = "enter",
                                 ![c].err1 = call[c].err, ![c].err = NoErr,
                                 ![c].did = Append(@, "s.Stop")]
  /\ UNCHANGED <<supVars, rdVars, hist>>

C_Stop_afterM(c) ==
  /\ call[c].top = "c.Stop"
  /\ At(c, "m.Stop", "ret")
  /\ call' = [call EXCEPT ![c].sub = "s.Stop", ![c].pc = "enter",
                          ![c].err1 = call[c].err, ![c].err = NoErr,
                          ![c].did = Append(@, "s.Stop")]
  /\ UNCHANGED <<supVars, rdVars, hist>>

\* Stop: both have returned; the result is wrapMultiError of the two.
C_Stop_afterS(c) ==
  /\ call[c].top = "c.Stop"
  /\ At(c, "s.Stop", "ret")
  /\ call' = [call EXCEPT ![c].sub = "c.Stop", ![c].err2 = call[c].err,
                          ![c].err = wrapMultiError(call[c].err1, call[c].err)]
  /\ UNCHANGED <<supVars, rdVars, hist>>

\* Wait: the select over GoFunc(s.minicapDaemon.Wait) and
\* GoFunc(s.jpgTcpSucker.Wait) returns what one of the two Waits returned.
MutC_Wait(c) ==
  /\ At(c, "c.Wait", "select")
  /\ WaitReady(m) /\ WaitReady(s)
  /\ call' = [call EXCEPT ![c].pc = "ret",
                          ![c].err = wrapMultiError(m.err, s.err)]
  /\ UNCHANGED <<supVars, rdVars, hist>>

C_Wait(c) ==
  /\ At(c, "c.Wait", "select")
  /\ \/ /\ WaitReady(m)
        /\ call' = [call EXCEPT ![c].pc = "ret", ![c].err = m.err,
                                ![c].err1 = <<"minicapDaemon">>]
     \/ /\ WaitReady(s)
        /\ call' = [call EXCEPT ![c].pc = "ret", ![c].err = s.err,
                                ![c].err1 = <<"jpgTcpSucker">>]
  /\ UNCHANGED <<supVars, rdVars, hist>>

(* ------------------------------ clients -------------------------------- *)
\* A client calls Start on a Supervisor that is not being supervised.
Client_m_Start(c, max) ==
  /\ call[c].top = "none"
  /\ hist.starts < max
  /\ loop.pc \in {"off", "done"}
  /\ call' = [call EXCEPT ![c] = [Idle EXCEPT !.top = "m.Start",
                                              !.sub = "m.Start",
                                              !.pc = "enter"]]
  /\ hist' = [hist EXCEPT !.starts = @ + 1]
  /\ UNCHANGED <<supVars, rdVars>>

Client_m_Stop(c) ==
  /\ call[c].top = "none"
  /\ m.quitC # "nil"
  /\ call' = [call EXCEPT ![c] = [Idle EXCEPT !.top = "m.Stop",
                                              !.sub = "m.Stop",
                                              !.pc = "enter"]]
  /\ UNCHANGED <<supVars, rdVars, hist>>

\* A client calls Start on a Reader whose read task is not running.
Client_s_Start(c, max) ==
  /\ call[c].top = "none"
  /\ hist.starts < max
  /\ keep.pc \in {"off", "done"}
  /\ call' = [call EXCEPT ![c] = [Idle EXCEPT !.top = "s.Start",
                                              !.sub = "s.Start",
                                              !.pc = "enter"]]
  /\ hist' = [hist EXCEPT !.starts = @ + 1]
  /\ UNCHANGED <<supVars, rdVars>>

Client_s_Stop(c) ==
  /\ call[c].top = "none"
  /\ s.quitC # "nil"
  /\ call' = [call EXCEPT ![c] = [Idle EXCEPT !.top = "s.Stop",
                                              !.sub = "s.Stop",
                                              !.pc = "enter"]]
  /\ UNCHANGED <<supVars, rdVars, hist>>

\* A client calls Start on a Coordinator neither component of which runs.
Client_c_Start(c, max) ==
  /\ call[c].top = "none"
  /\ hist.starts < max
  /\ loop.pc \in {"off", "done"}
  /\ keep.pc \in {"off", "done"}
  /\ call' = [call EXCEPT ![c] = [Idle EXCEPT !.top = "c.Start",
                                              !.sub = "m.Start",
                                              !.pc = "enter",
                                              !.did = <<"m.Start">>]]
  /\ hist' = [hist EXCEPT !.starts = @ + 1]
  /\ UNCHANGED <<supVars, rdVars>>

\* Stop and Wait are called once both components were started at least once.
Client_c_Stop(c) ==
  /\ call[c].top = "none"
  /\ m.quitC # "nil"
  /\ s.quitC # "nil"
  /\ hist.stops < MaxStops
  /\ call' = [call EXCEPT ![c] = [Idle EXCEPT !.top = "c.Stop",
                                              !.sub = "m.Stop",
                                              !.pc = "enter",
                                              !.did = <<"m.Stop">>]]
  /\ hist' = [hist EXCEPT !.stops = @ + 1]
  /\ UNCHANGED <<supVars, rdVars>>

Client_c_Wait(c) ==
  /\ call[c].top = "none"
  /\ m.quitC # "nil"
  /\ s.quitC # "nil"
  /\ call' = [call EXCEPT ![c] = [Idle EXCEPT !.top = "c.Wait",
                                              !.sub = "c.Wait",
                                              !.pc = "select"]]
  /\ UNCHANGED <<supVars, rdVars, hist>>

\* A call made directly on a component returns to the client.
Client_return(c) ==
  /\ call[c].top = call[c].sub
  /\ call[c].pc = "ret"
  /\ call' = [call EXCEPT ![c] = Idle]
  /\ UNCHANGED <<supVars, rdVars, hist>>

(* ------------------------------- Init ---------------------------------- *)
InitSup ==
  /\ remote \in SUBSET Files
  /\ proc = [st |-> "none", param |-> NoParam]
  /\ m = [width |-> 0, height |-> 0, maxWidth |-> DefaultMax,
          maxHeight |-> DefaultMax, rotation |-> 0, binaryPath |-> "",
          quitC |-> "nil", done |-> FALSE, err |-> NoErr, busy |-> FALSE]
  /\ loop = [pc |-> "off", needRestart |-> FALSE]
  /\ cap = NoCapture
  /\ req = [k \in Callers |-> NoReq]
  /\ call = [c \in Clients |-> Idle]

InitRd ==
  /\ s = [port |-> 0, conn |-> "nil", quitC |-> "nil", C |-> <<>>,
          forwardSpec |-> NoSpec, done |-> FALSE, err |-> NoErr, busy |-> FALSE]
  /\ keep = [pc |-> "off", leftRetry |-> 0]
  /\ rd = NoReader
  /\ wire = NoWire

InitHist ==
  hist = [starts |-> 0, nreq |-> 0, pushLog |-> {}, pend |-> <<>>,
          served |-> <<>>, seen |-> 0, fresh |-> TRUE,
          attempts |-> 0, dropped |-> FALSE, got |-> <<>>, sent |-> 0,
          stops |-> 0, rdStarts |-> 0, supOk |-> 0]

Init == InitSup /\ InitRd /\ InitHist

\* The Supervisor's requests are studied on a device that is provisioned.
InitProvisioned == Init /\ remote = Files

(* --------- the Supervisor: provisioning and Start/Stop cycles ----------- *)
LifeSteps ==
  \/ Client_m_Stop(1)
  \/ Client_return(1)
  \/ M_Start(1)
  \/ M_prepareSafe(1)
  \/ M_Stop(1)
  \/ M_Stop_send(1)
  \/ M_Stop_wait(1)
  \/ Loop_begin
  \/ Loop_errC
  \/ Loop_quitC
  \/ Cap_format
  \/ Cap_open(TRUE)
  \/ Cap_firstLine(FirstLines)
  \/ Cap_lines
  \/ Cap_orphan
  \/ Proc_exit

NextLife ==
  \/ Client_m_Start(1, MaxStarts)
  \/ LifeSteps

SpecLife == Init /\ [][NextLife]_vars

(* ------------- the Supervisor: rotation and quality requests ------------ *)
NextSup ==
  \/ Client_m_Start(1, SupStarts)
  \/ LifeSteps
  \/ Loop_rotationC
  \/ \E q \in Qualities : SetQuality(1, q)
  \/ \E r \in Rotations : SetRotation(1, r)
  \/ SetRotation_timeout(1)

SpecSup == InitProvisioned /\ [][NextSup]_vars

(* ------------------------ the Reader and its socket -------------------- *)
NextRd ==
  \/ Client_s_Start(1, RdStarts)
  \/ Client_s_Stop(1)
  \/ Client_return(1)
  \/ S_Start(1)
  \/ S_Stop(1)
  \/ S_Stop_send(1)
  \/ S_Stop_close(1)
  \/ S_Stop_wait(1)
  \/ Keep_begin
  \/ Keep_result
  \/ Keep_quitC
  \/ Keep_timer
  \/ Read_dial(TRUE)
  \/ Read_assign
  \/ Read_preamble
  \/ Read_size
  \/ Read_payload
  \/ Read_orphan
  \/ \E msg \in Messages : Sock_send(msg)
  \/ Sock_eof
  \/ Consume

InitReader == Init /\ remote = Files

SpecRd == InitReader /\ [][NextRd]_vars

\* The loop's select chooses among its ready cases at random: a sender that
\* stays ready on rotationC is served.
SpecSupFair == SpecSup /\ WF_vars(Loop_rotationC)

(* ------------------------- the Coordinator ----------------------------- *)
\* The two components together, on a device whose socket sends no frames.
NextCo ==
  \/ Client_c_Start(1, CoStarts)
  \/ Client_c_Stop(1)
  \/ Client_c_Wait(1)
  \/ Client_return(1)
  \/ C_Start_afterM(1)
  \/ C_Start_afterS(1)
  \/ C_Stop_afterM(1)
  \/ C_Stop_afterS(1)
  \/ C_Wait(1)
  \/ M_Start(1)
  \/ M_prepareSafe(1)
  \/ M_Stop(1)
  \/ M_Stop_send(1)
  \/ M_Stop_wait(1)
  \/ Loop_begin
  \/ Loop_errC
  \/ Loop_quitC
  \/ Cap_format
  \/ Cap_open(TRUE)
  \/ Cap_firstLine(FirstLines)
  \/ Cap_lines
  \/ Cap_orphan
  \/ Proc_exit
  \/ S_Start(1)
  \/ S_Stop(1)
  \/ S_Stop_send(1)
  \/ S_Stop_close(1)
  \/ S_Stop_wait(1)
  \/ Keep_begin
  \/ Keep_result
  \/ Keep_quitC
  \/ Keep_timer
  \/ Read_dial(TRUE)
  \/ Read_assign
  \/ Read_preamble
  \/ Read_orphan
  \/ Sock_eof

InitCo == Init /\ {fastCap, fastLib} \subseteq remote

SpecCo == InitCo /\ [][NextCo]_vars

(* ------------------------------ end to end ----------------------------- *)
PidLine == <<"P", "I", "D", ":", " ", "9">>

\* The Coordinator on a device whose capture process prints a PID line and
\* keeps its control stream open, and whose socket plays Script and stays open.
\* No capture ends on its own here, so the loop's result branch never runs.
NextE2E ==
  \/ Client_c_Start(1, 1)
  \/ Client_c_Stop(1)
  \/ Client_return(1)
  \/ C_Start_afterM(1)
  \/ C_Start_afterS(1)
  \/ C_Stop_afterM(1)
  \/ C_Stop_afterS(1)
  \/ M_Start(1)
  \/ M_prepareSafe(1)
  \/ M_Stop(1)
  \/ M_Stop_send(1)
  \/ M_Stop_wait(1)
  \/ Loop_begin
  \/ Loop_quitC
  \/ Cap_format
  \/ Cap_open(FALSE)
  \/ Cap_firstLine({PidLine})
  \/ Cap_lines
  \/ Cap_orphan
  \/ S_Start(1)
  \/ S_Stop(1)
  \/ S_Stop_send(1)
  \/ S_Stop_close(1)
  \/ S_Stop_wait(1)
  \/ Keep_begin
  \/ Keep_result
  \/ Keep_quitC
  \/ Keep_timer
  \/ Read_dial(FALSE)
  \/ Read_assign
  \/ Read_preamble
  \/ Read_size
  \/ Read_payload
  \/ Read_orphan
  \/ Sock_script
  \/ Consume_log

SpecE2E == InitCo /\ [][NextE2E]_vars

(* --------------------------- concurrent callers ------------------------ *)
\* Two callers issue Start and Stop on both components at any time, on a
\* device that is provisioned, launches the capture process and accepts the
\* connection.
NextMx ==
  \/ \E c \in Clients : Client_m_Start(c, MaxStarts)
  \/ \E c \in Clients : Client_m_Stop(c)
  \/ \E c \in Clients : Client_s_Start(c, MaxStarts)
  \/ \E c \in Clients : Client_s_Stop(c)
  \/ \E c \in Clients : Client_return(c)
  \/ \E c \in Clients : M_Start(c)
  \/ \E c \in Clients : M_prepareSafe(c)
  \/ \E c \in Clients : M_Stop(c)
  \/ \E c \in Clients : M_Stop_send(c)
  \/ \E c \in Clients : M_Stop_wait(c)
  \/ \E c \in Clients : S_Start(c)
  \/ \E c \in Clients : S_Stop(c)
  \/ \E c \in Clients : S_Stop_send(c)
  \/ \E c \in Clients : S_Stop_close(c)
  \/ \E c \in Clients : S_Stop_wait(c)
  \/ Loop_begin
  \/ Loop_quitC
  \/ Cap_format
  \/ Cap_open(FALSE)
  \/ Cap_firstLine({PidLine})
  \/ Cap_lines
  \/ Cap_orphan
  \/ Keep_begin
  \/ Keep_result
  \/ Keep_quitC
  \/ Keep_timer
  \/ Read_dial(FALSE)
  \/ Read_assign
  \/ Read_preamble
  \/ Read_orphan

SpecMx == InitProvisioned /\ [][NextMx]_vars

(* ============================ properties =============================== *)
\* The launch that serves request q: the running (or last) process was
\* opened after q was received, with no other launch in between.
Served(q) == \E i \in DOMAIN hist.served : hist.served[i] = q
ServedAlone(q) == hist.served = <<q>>

\* C1 (as claimed): the launch that follows one SetQuality(tier) call on a
\* running Supervisor (a process was running when the loop took the call), its
\* parameters formatted after the loop received the call's event, carries the
\* tier's bounding box in both targetMaxWidth and targetMaxHeight, with
\* deviceWidth, deviceHeight and rotation as they were.
C1_QualityLaunchHasBox ==
  \A q \in {x \in [st : {"live"}, kind : {"quality"}, val : Rotations,
                   box : {1080, 720, 480, 240}] :
                ServedAlone(x) /\ hist.fresh} :
    /\ proc.param.maxWidth = q.box
    /\ proc.param.maxHeight = q.box
    /\ proc.param.width = m.width
    /\ proc.param.height = m.height
    /\ proc.param.rotation = q.val

\* C2 (as claimed): a SetRotation(r) that the supervision loop received is
\* followed by a launch with rotation = r: the launch that serves it, alone,
\* never has another rotation.
C2_ReceivedRotationIsLaunched ==
  \A q \in {x \in [st : {"live", "early"}, kind : {"rotation"}, val : Rotations,
                   box : {0}] : ServedAlone(x)} :
    proc.param.rotation = q.val

\* C6: a file is pushed only when the slow variant is absent and the file
\* itself is absent; with both variants on the device nothing is ever pushed,
\* whatever Start/Stop cycles and probe retries happen, and the slow variant
\* is the one selected.
C6_PushOnlyWhenAbsent ==
  /\ \A e \in hist.pushLog : ~e.slow /\ ~e.there
  /\ {slowCap, fastCap} \subseteq remote =>
       /\ hist.pushLog = {}
       /\ m.binaryPath \in {"", slowCap}
       /\ (At(1, "m.Start", "ret") /\ call[1].err # ErrBusy) =>
            m.binaryPath = slowCap

\* Both variants exist, the last allowed Start has returned after a probe
\* retry, and the slow variant is selected.
C6_Witness ==
  /\ {slowCap, fastCap} \subseteq remote
  /\ hist.starts = MaxStarts
  /\ At(1, "m.Start", "ret")
  /\ call[1].n > 0
  /\ m.binaryPath = slowCap
  /\ hist.pushLog = {}

\* A frame as the wire protocol defines it: it begins with 0xFF 0xD8.
StartsWithSOI(f) == Len(f) >= 2 /\ f[1] = SOI1 /\ f[2] = SOI2
\* The read loop takes a payload off an open connection in this step.
PayloadStep == rd.pc = "payload" /\ wire.st = "open" /\ rd'.pc # "payload"
PayloadRead == Take(wire.bytes, rd.size)

\* C3: every frame on the output queue begins with 0xFF 0xD8, and a payload
\* of any announced length that does not (the empty and the one-byte payload
\* included) ends the connection's read loop with the format error and leaves
\* the queue as it was.
C3_OnlyJpegFramesDelivered ==
  /\ [](\A i \in DOMAIN s.C : StartsWithSOI(s.C[i]))
  /\ [][(PayloadStep /\ ~StartsWithSOI(PayloadRead)) =>
          (rd'.pc = "result" /\ rd'.err = ErrJpeg /\ s'.C = s.C)]_vars

\* A one-byte payload 0xFF was rejected while a frame sits in the queue.
C3_Witness ==
  /\ rd.pc = "result"
  /\ rd.err = ErrJpeg
  /\ s.C # <<>>
  /\ wire.bytes = <<>>
  /\ wire.st = "closed"

\* C4: the queue never holds more than 3 frames; the payload step never waits
\* for room in it; a frame that finds it full is discarded, the queue is
\* unchanged and the loop goes on to read the next length.
C4_QueueBoundedNeverBlocks ==
  /\ [](Len(s.C) <= QueueCap)
  /\ []((rd.pc = "payload" /\ Readable(rd.size)) => ENABLED Read_payload)
  /\ [][(PayloadStep /\ StartsWithSOI(PayloadRead) /\ Len(s.C) = QueueCap) =>
          (s'.C = s.C /\ rd'.pc = "size")]_vars

\* A frame was discarded: the queue is full and the loop reads the next length.
C4_Witness ==
  /\ hist.dropped
  /\ Len(s.C) = QueueCap
  /\ rd.pc = "size"

\* C5: within one run each connection attempt that ended has taken one unit of
\* the budget of 10, which never grows; the run ends with the retry error only
\* after the first attempt and exactly 10 retries, and no attempt follows.
C5_RetryBudget ==
  /\ hist.attempts <= MaxRetry + 1
  /\ keep.pc \in {"wait", "sleep"} =>
       hist.attempts = (MaxRetry - keep.leftRetry) + 1
  /\ (keep.pc = "done" /\ s.err # NoErr) =>
       /\ s.err = Wrap(ErrRetry, "readFromTcp")
       /\ hist.attempts = MaxRetry + 1
       /\ keep.leftRetry = 0
       /\ rd.pc = "none"

\* The run ended on the exhausted budget after 11 attempts.
C5_Witness ==
  /\ keep.pc = "done"
  /\ s.done
  /\ s.err = Wrap(ErrRetry, "readFromTcp")
  /\ hist.attempts = MaxRetry + 1

(* ------------------------------ end to end ---------------------------- *)
IsPrefix(a, b) == Len(a) <= Len(b) /\ SubSeq(b, 1, Len(a)) = a

\* Everything the output queue was given, in order: what the consumer took
\* and what is still queued.
Delivered == hist.got \o s.C

\* The read task is blocked on the open socket: nothing it waits for is there.
ReaderBlocked ==
  /\ wire.st = "open"
  /\ rd.pc \in {"preamble", "size", "payload"}
  /\ ~ENABLED Read_preamble
  /\ ~ENABLED Read_size
  /\ ~ENABLED Read_payload

\* C7: with a PID line on an open control stream and a socket that sends one
\* preamble and two JPEG-marked frames and stays open, the output queue is
\* given a prefix of those two frames in the order sent (no duplicate, no
\* extra frame); before Stop is called it has been given both once the read
\* task has nothing left to read, and neither component has terminated.
C7_EndToEndTwoFrames ==
  /\ IsPrefix(Delivered, <<Frame1, Frame2>>)
  /\ (hist.stops = 0 /\ hist.sent = Len(Script) /\ ReaderBlocked)
       => /\ Delivered = <<Frame1, Frame2>>
          /\ rd.pc = "size"
  /\ (hist.stops = 0)
       => /\ ~m.done /\ ~s.done
          /\ loop.pc # "done"
          /\ keep.pc # "done"

\* Both frames were taken by the consumer while both components run and the
\* read task waits for more.
C7_Witness ==
  /\ hist.got = <<Frame1, Frame2>>
  /\ hist.stops = 0
  /\ ReaderBlocked
  /\ loop.pc = "select"
  /\ cap.pc = "lines"
  /\ proc.st = "running"
  /\ keep.pc \notin {"off", "done"}

(* ----------------------------- Coordinator ----------------------------- *)
Returned(c, top) ==
  call[c].top = top /\ call[c].sub = top /\ call[c].pc = "ret"

\* e occurs in all as a run of consecutive entries.
Within(e, all) ==
  \E i \in 0..(Len(all) - Len(e)) : SubSeq(all, i + 1, i + Len(e)) = e

\* C8: Coordinator.Start calls the Supervisor's Start first; when that fails
\* the same error is returned and the Reader is not started (every Reader
\* start follows a successful Supervisor start, and a Start that returned
\* without calling the Reader returned the prepare failure); while the Reader
\* is being started the Supervisor has selected a variant and the transport
\* is the loopback port for the slow variant, the abstract socket for the fast.
C8_StartOrderAndTransport ==
  /\ hist.rdStarts <= hist.supOk
  /\ (hist.rdStarts > 0 \/ keep.pc # "off" \/ s.forwardSpec # NoSpec)
       => hist.supOk > 0
  /\ \A c \in Clients :
       /\ (Returned(c, "c.Start") /\ call[c].did = <<"m.Start">>)
            => /\ call[c].err # NoErr
               /\ Head(call[c].err) = "prepare minicap"
       /\ (call[c].top = "c.Start" /\ call[c].did # <<"m.Start">>)
            => /\ call[c].did = <<"m.Start", "s.Start">>
               /\ m.binaryPath \in {slowCap, fastCap}
               /\ (m.binaryPath = slowCap) => (s.forwardSpec = SpecTcp)
               /\ (m.binaryPath = fastCap) => (s.forwardSpec = SpecAbstract)

\* A Start that failed in the Supervisor returned and left the Reader untouched.
C8_Witness ==
  /\ Returned(1, "c.Start")
  /\ call[1].did = <<"m.Start">>
  /\ call[1].err # NoErr
  /\ keep.pc = "off"
  /\ s.quitC = "nil"

\* C9: when Coordinator.Stop returns, Stop was called on the Supervisor and
\* then on the Reader, whatever the Supervisor's Stop returned; the result
\* holds the errors of both and is nil exactly when both are nil.
C9_StopCallsBothCombines ==
  \A c \in Clients :
    /\ Returned(c, "c.Stop") =>
         /\ call[c].did = <<"m.Stop", "s.Stop">>
         /\ (call[c].err = NoErr) <=>
              (call[c].err1 = NoErr /\ call[c].err2 = NoErr)
         /\ Within(call[c].err1, call[c].err)
         /\ Within(call[c].err2, call[c].err)
    /\ (call[c].top = "c.Stop" /\ At(c, "m.Stop", "ret"))
         => ENABLED C_Stop_afterM(c)

\* The Supervisor's Stop returned an error and the Reader's Stop ran anyway.
C9_Witness ==
  /\ Returned(1, "c.Stop")
  /\ call[1].err1 # NoErr
  /\ call[1].did = <<"m.Stop", "s.Stop">>
  /\ call[1].err # NoErr

\* C10: Coordinator.Wait can return as soon as one component has finished,
\* without the other; what it returns is the terminal error of a component
\* that has finished; it has not returned while both are running.
C10_WaitFirstToFinish ==
  \A c \in Clients :
    /\ (At(c, "c.Wait", "select") /\ (m.done \/ s.done))
         => ENABLED C_Wait(c)
    /\ (At(c, "c.Wait", "select") /\ ~m.done /\ ~s.done)
         => ~ENABLED C_Wait(c)
    /\ Returned(c, "c.Wait") =>
         /\ m.done \/ s.done
         /\ \/ m.done /\ call[c].err = m.err
            \/ s.done /\ call[c].err = s.err

\* Wait returned the Supervisor's error while the Reader is still running.
C10_Witness ==
  /\ Returned(1, "c.Wait")
  /\ m.done
  /\ ~s.done
  /\ keep.pc \notin {"off", "done"}
  /\ call[1].err = m.err
  /\ call[1].err # NoErr

(* ------------------------------- Reader.Stop --------------------------- *)
\* C11 (as claimed): once the Reader's Stop has returned, no connection the
\* Reader opened is open and the read loop is not taking a payload, so that no
\* frame reaches the output queue any more.
C11_StopLeavesNothingOpen ==
  \A c \in Clients :
    (At(c, "s.Stop", "ret") /\ call[c].err # ErrBusy) =>
      /\ wire.st # "open"
      /\ rd.pc # "payload"

(* ----------------------------- Supervisor.Stop ------------------------- *)
\* C12 (as claimed): once the Supervisor's Stop has returned, supervision has
\* ended with no recorded error, no capture process is running and no launch
\* is still to come.
C12_StopLeavesNoProcess ==
  \A c \in Clients :
    (At(c, "m.Stop", "ret") /\ call[c].err # ErrBusy) =>
      /\ loop.pc = "done"
      /\ m.err = NoErr
      /\ proc.st # "running"

(* --------------------------- mutual exclusion -------------------------- *)
\* Caller c is inside the body of a Start or Stop of the Supervisor / Reader.
InSupBody(c) ==
  /\ call[c].sub \in {"m.Start", "m.Stop"}
  /\ call[c].pc \in {"prepare", "send", "wait"}
InRdBody(c) ==
  /\ call[c].sub \in {"s.Start", "s.Stop"}
  /\ call[c].pc \in {"send", "close", "wait"}

\* C13: on each component at most one Start or Stop body executes at a time,
\* and a Start or Stop entered while another one of the same component is in
\* flight returns the already-running error and leaves the component, the
\* device and the background tasks as they were.
C13_OneStartOrStopAtATime ==
  /\ [](\A c, d \in Clients :
          c # d => /\ ~(InSupBody(c) /\ InSupBody(d))
                   /\ ~(InRdBody(c) /\ InRdBody(d)))
  /\ [][\A c \in Clients :
          /\ ( /\ call[c].sub \in {"m.Start", "m.Stop"}
               /\ call[c].pc = "enter"
               /\ \E d \in Clients \ {c} : InSupBody(d)
               /\ call'[c] # call[c] )
             => /\ call'[c].pc = "ret"
                /\ call'[c].err = ErrBusy
                /\ UNCHANGED <<remote, proc, m, loop, cap>>
          /\ ( /\ call[c].sub \in {"s.Start", "s.Stop"}
               /\ call[c].pc = "enter"
               /\ \E d \in Clients \ {c} : InRdBody(d)
               /\ call'[c] # call[c] )
             => /\ call'[c].pc = "ret"
                /\ call'[c].err = ErrBusy
                /\ UNCHANGED <<s, keep, rd, wire>>]_vars

\* A Start was refused while the other caller's Start is between two probes.
C13_Witness ==
  /\ At(2, "m.Start", "ret")
  /\ call[2].err = ErrBusy
  /\ At(1, "m.Start", "prepare")
  /\ call[1].n > 0
  /\ m.busy

(* ------------------------------ prepareSafe ---------------------------- *)
\* The errors one attempt of the probe can end with.
ProbeErrors(rem) ==
  {prepare(rem, o).err : o \in PrepareOutcomes} \ {NoErr}

\* C14: a Start makes at most 4 probe attempts (3 retries); a step of the
\* retry loop either ends Start without error at the first success and begins
\* supervision, or retries after a kill while fewer than 3 retries were made,
\* or, on the failure of the 4th attempt, returns that attempt's error
\* (wrapped) and begins no supervision.
C14_ProbeAtMostFourTimes ==
  /\ [](\A c \in Clients : call[c].sub = "m.Start" => call[c].n <= ProbeRetries)
  /\ [][\A c \in Clients :
          (At(c, "m.Start", "prepare") /\ call'[c] # call[c]) =>
            \/ /\ call'[c].pc = "ret"
               /\ call'[c].err = NoErr
               /\ loop'.pc = "start"
            \/ /\ call'[c].pc = "prepare"
               /\ call[c].n < ProbeRetries
               /\ call'[c].n = call[c].n + 1
               /\ proc'.st # "running"
               /\ loop' = loop
            \/ /\ call'[c].pc = "ret"
               /\ call[c].n = ProbeRetries
               /\ call'[c].err # NoErr
               /\ Head(call'[c].err) = "prepare minicap"
               /\ Tail(call'[c].err) \in ProbeErrors(remote)
               /\ loop' = loop
               /\ ~m'.done]_vars

\* The 4th attempt failed: Start returned its error and no loop was started.
C14_Witness ==
  /\ At(1, "m.Start", "ret")
  /\ call[1].n = ProbeRetries
  /\ call[1].err # NoErr
  /\ Head(call[1].err) = "prepare minicap"
  /\ loop.pc = "off"
  /\ hist.starts = 1

(* ------------------------- terminal failures --------------------------- *)
ErrNoPid == Wrap(<<"expect PID">>, "run minicap")

\* C15 (as claimed): a first line without the PID marker always ends
\* supervision with a recorded error and no relaunch: when the loop is about
\* to receive that result, its restart flag is not set.
C15_ViolationEndsSupervision ==
  (loop.pc = "select" /\ cap.pc = "result" /\ cap.err = ErrNoPid)
    => ~loop.needRestart

(* --------------------------- restart cycles ---------------------------- *)
\* C16 (as claimed): a request received while a process runs has its own
\* relaunch before the next request is received: no launch follows two
\* requests received since the launch before it.
C16_OneRelaunchPerRequest ==
  ~(Len(hist.served) >= 2 /\ hist.served[1].st = "live")

(* ------------------------- Reader: stop signal ------------------------- *)
\* C17: at both wait points of the Reader's background task (waiting for a
\* connection's result, and the back-off) a pending stop signal can be taken,
\* and the step that takes it ends the task with no recorded error, whatever
\* happened before and whatever is left of the budget.
C17_StopSignalEndsClean ==
  /\ []((keep.pc \in {"wait", "sleep"} /\ s.quitC = "full")
          => ENABLED Keep_quitC)
  /\ [][(keep.pc \in {"wait", "sleep"} /\ s.quitC = "full"
           /\ s'.quitC = "empty" /\ keep'.pc = "done")
          => (s'.done /\ s'.err = NoErr)]_vars

\* The signal was taken after a connection had failed, with retries left.
C17_Witness ==
  /\ keep.pc = "done"
  /\ s.done
  /\ s.err = NoErr
  /\ s.quitC = "empty"
  /\ hist.attempts = 2
  /\ keep.leftRetry = MaxRetry - 1

(* --------------------------- frame lengths ----------------------------- *)
\* C18 (as claimed): a frame placed on the queue has as many bytes as its
\* length field announced, and a payload cut short by the end of the
\* connection is not placed on the queue: the read loop ends with an error.
C18_DeliveredFramesAreComplete ==
  [][PayloadStep =>
       /\ (s'.C # s.C) => Len(PayloadRead) = rd.size
       /\ (Len(PayloadRead) < rd.size) =>
            (s'.C = s.C /\ rd'.pc = "result" /\ rd'.err # NoErr)]_vars

(* ------------------- Coordinator.Start: Reader fails ------------------- *)
ErrForward == <<"forward failed">>

\* C19: when Coordinator.Start returns an error after it called the Reader's
\* Start, that error is the Reader's and nothing was rolled back: the
\* Supervisor was started, no stop signal was sent to it, supervision has not
\* ended unless with an error of its own, the Reader's task does not run; and
\* no step of the Reader's Start or of Start's return touches the Supervisor,
\* its loop or the capture process.
C19_NoRollbackOnReaderFailure ==
  /\ [](\A c \in Clients :
          ( /\ Returned(c, "c.Start")
            /\ call[c].did = <<"m.Start", "s.Start">>
            /\ call[c].err # NoErr )
          => /\ call[c].err = ErrForward
             /\ m.quitC = "empty"
             /\ loop.pc # "off"
             /\ (loop.pc = "done") => (m.err # NoErr)
             /\ keep.pc \in {"off", "done"})
  /\ [][\A c \in Clients :
          ( /\ call[c].top = "c.Start"
            /\ call[c].sub = "s.Start"
            /\ call'[c] # call[c] )
          => UNCHANGED <<m, loop, cap, proc>>]_vars

\* Start returned the Reader's error while the capture process runs under
\* supervision.
C19_Witness ==
  /\ Returned(1, "c.Start")
  /\ call[1].err = ErrForward
  /\ proc.st = "running"
  /\ loop.pc = "select"
  /\ cap.pc = "lines"
  /\ ~m.done

(* ------------------------------ SetQuality ----------------------------- *)
\* Caller k is inside SetQuality, blocked on the send to rotationC.
QualitySending(k) == req[k].st = "send" /\ req[k].kind = "quality"

\* C20: a SetQuality call with a supported tier leaves its send only in a
\* step in which the supervision loop receives the event (there is no
\* timeout), so it does not return while no loop is in its select; while the
\* loop stays in its select the call returns eventually; a call that sends
\* nothing (an unsupported tier) changes nothing.
C20_SetQualityBlocksUntilReceived ==
  /\ [][\A k \in Callers :
          (QualitySending(k) /\ ~QualitySending(k)') =>
            /\ loop.pc = "select"
            /\ loop'.needRestart
            /\ m'.rotation = req[k].val]_vars
  /\ [][(hist'.nreq = hist.nreq + 1 /\ req' = req) =>
          (m' = m /\ proc' = proc /\ loop' = loop /\ cap' = cap)]_vars
  /\ \A k \in Callers :
       (QualitySending(k) /\ loop.pc = "select")
         ~> (~QualitySending(k) \/ loop.pc # "select")

\* A SetQuality call is blocked after supervision has ended.
C20_Witness ==
  /\ QualitySending(1)
  /\ req[1].box = 1080
  /\ loop.pc = "done"
  /\ m.done

====
